---- MODULE Spec2Model ----
(***************************************************************************)
(* G1EvacFailureRegions: the evacuation-failure region tracker of the G1   *)
(* collector.  Worker threads call record(region_idx) concurrently during  *)
(* the parallel phase of a pause.  record() is modelled statement by       *)
(* statement from g1EvacFailureRegions.inline.hpp; every shared-memory     *)
(* access of record() is one atomic step of the calling worker.            *)
(*                                                                         *)
(* The bitmap primitive, the atomic add, the region notification, reset,   *)
(* the read accessors and the pause protocol are not part of the source    *)
(* file at hand and are modelled from the design document.                 *)
(***************************************************************************)
EXTENDS Naturals, Integers, Sequences, FiniteSets

\* ---------------------------------------------------------------- bounds
NumWorkers == 2      \* number of parallel worker threads
max_regions == 2     \* size of the region index space
MaxCalls == 3        \* record() invocations per Recording phase

Workers == 1 .. NumWorkers
Regions == 0 .. (max_regions - 1)
Slots == 0 .. (max_regions - 1)

\* Content of a log slot that has not been stored into since the storage
\* was set up for the pause: the value is indeterminate, and is kept apart
\* from every region id.
Indeterminate == 0 - 1

VARIABLES
  phase,                              \* "Idle", "Recording" or "Sealed"
  _regions_failed_evacuation,         \* presence bitmap: region id -> bit
  _evac_failure_regions,              \* append log storage: slot -> region id
  _evac_failure_regions_cur_length,   \* append cursor
  notified,                           \* region -> note_evacuation_failure() calls this pause
  pc,                                 \* worker -> position inside record()
  region_idx,                         \* worker -> argument of its record() call
  success,                            \* worker -> local 'success'
  offset,                             \* worker -> local 'offset'
  \* history of the current pause (observers only, never read by record)
  invoked,                            \* region -> record() calls started
  retTrue,                            \* region -> record() calls that returned true
  retFalse,                           \* region -> record() calls that returned false
  claimOrder,                         \* regions in the order their bit went 0 -> 1
  reserved,                           \* <<region, index>> in the order of the fetch-and-adds
  writes,                             \* slot -> stores into the slot
  prevCount,                          \* count() when reset() last ran
  consumed                            \* what the consumer last read: <<count(), list>>, or << >>

shared == <<_regions_failed_evacuation, _evac_failure_regions,
            _evac_failure_regions_cur_length, notified>>
locals == <<pc, region_idx, success, offset>>
history == <<invoked, retTrue, retFalse, claimOrder, reserved, writes,
             prevCount>>
vars == <<phase, shared, locals, history, consumed>>

\* ------------------------------------------------------- small utilities
RECURSIVE SumOver(_, _)
SumOver(f, S) ==
  IF S = {} THEN 0
  ELSE LET x == CHOOSE y \in S : TRUE IN f[x] + SumOver(f, S \ {x})

Range(s) == { s[i] : i \in DOMAIN s }

NoDup(s) == \A i, j \in DOMAIN s : i # j => s[i] # s[j]

\* --------------------------------------------- primitives used by record
\* BitMap::par_set_bit: atomic test-and-set of one bit; reports whether this
\* call performed the 0 -> 1 transition.
par_set_bit(bits, idx) ==
  [ bits |-> [bits EXCEPT ![idx] = TRUE], result |-> ~bits[idx] ]

\* Atomic::fetch_then_add: atomic add returning the value before the add.
fetch_then_add(cur, n) ==
  [ value |-> cur + n, result |-> cur ]

\* HeapRegion::note_evacuation_failure on the region object of region r.
note_evacuation_failure(n, r) ==
  [n EXCEPT ![r] = @ + 1]

\* ----------------------------------------------------------- read access
count == _evac_failure_regions_cur_length

has_failed_regions == count > 0

\* the failed-region list the consumer iterates: slots [0, count)
FailedRegions ==
  [ i \in 1 .. count |-> _evac_failure_regions[i - 1] ]

\* ------------------------------------------------------------------ Init
Init ==
  /\ phase = "Idle"
  /\ _regions_failed_evacuation = [r \in Regions |-> FALSE]
  /\ _evac_failure_regions = [i \in Slots |-> Indeterminate]
  /\ _evac_failure_regions_cur_length = 0
  /\ notified = [r \in Regions |-> 0]
  /\ pc = [t \in Workers |-> "idle"]
  /\ region_idx = [t \in Workers |-> 0]
  /\ success = [t \in Workers |-> FALSE]
  /\ offset = [t \in Workers |-> 0]
  /\ invoked = [r \in Regions |-> 0]
  /\ retTrue = [r \in Regions |-> 0]
  /\ retFalse = [r \in Regions |-> 0]
  /\ claimOrder = << >>
  /\ reserved = << >>
  /\ writes = [i \in Slots |-> 0]
  /\ prevCount = 0
  /\ consumed = << >>

\* -------------------------------------------------------- pause protocol
\* Idle -> Recording: the parallel evacuation phase begins.
StartRecording ==
  /\ phase = "Idle"
  /\ phase' = "Recording"
  /\ UNCHANGED <<shared, locals, history, consumed>>

\* Recording -> Sealed: the join barrier; every worker has left record().
Seal ==
  /\ phase = "Recording"
  /\ \A t \in Workers : pc[t] = "idle"
  /\ phase' = "Sealed"
  /\ UNCHANGED <<shared, locals, history, consumed>>

\* ---------------------------------------------------------------- record
\* A worker enters record(r) with an in-range region id.
Call(t, r) ==
  /\ phase = "Recording"
  /\ pc[t] = "idle"
  /\ SumOver(invoked, Regions) < MaxCalls
  /\ pc' = [pc EXCEPT ![t] = "claim"]
  /\ region_idx' = [region_idx EXCEPT ![t] = r]
  /\ invoked' = [invoked EXCEPT ![r] = @ + 1]
  /\ UNCHANGED <<phase, consumed, shared, success, offset,
                 retTrue, retFalse, claimOrder, reserved, writes, prevCount>>

\* if (success) { ... } return success;
AfterClaimUngated(s) == "fetch_add"
AfterClaimNotifyAlways(s) == IF s THEN "fetch_add" ELSE "notify"
AfterClaimRetry(s) == IF s THEN "fetch_add" ELSE "claim"
AfterClaim(s) == IF s THEN "fetch_add" ELSE "ret"

\* bool success = _regions_failed_evacuation.par_set_bit(region_idx, relaxed);
RecordClaimWord(t) ==
  LET r == region_idx[t]
      won == \A q \in Regions : ~_regions_failed_evacuation[q] IN
  /\ pc[t] = "claim"
  /\ _regions_failed_evacuation' =
        [_regions_failed_evacuation EXCEPT ![r] = TRUE]
  /\ success' = [success EXCEPT ![t] = won]
  /\ claimOrder' = IF won THEN Append(claimOrder, r) ELSE claimOrder
  /\ pc' = [pc EXCEPT ![t] = AfterClaim(won)]
  /\ UNCHANGED <<phase, consumed, _evac_failure_regions,
                 _evac_failure_regions_cur_length, notified, region_idx,
                 offset, invoked, retTrue, retFalse, reserved, writes,
                 prevCount>>
RecordClaimToggle(t) ==
  LET r == region_idx[t]
      won == ~_regions_failed_evacuation[r] IN
  /\ pc[t] = "claim"
  /\ _regions_failed_evacuation' =
        [_regions_failed_evacuation EXCEPT ![r] = ~@]
  /\ success' = [success EXCEPT ![t] = won]
  /\ claimOrder' = IF won THEN Append(claimOrder, r) ELSE claimOrder
  /\ pc' = [pc EXCEPT ![t] = AfterClaim(won)]
  /\ UNCHANGED <<phase, consumed, _evac_failure_regions,
                 _evac_failure_regions_cur_length, notified, region_idx,
                 offset, invoked, retTrue, retFalse, reserved, writes,
                 prevCount>>
RecordClaim(t) ==
  LET r == region_idx[t]
      res == par_set_bit(_regions_failed_evacuation, r) IN
  /\ pc[t] = "claim"
  /\ _regions_failed_evacuation' = res.bits
  /\ success' = [success EXCEPT ![t] = res.result]
  /\ claimOrder' = IF res.result THEN Append(claimOrder, r) ELSE claimOrder
  /\ pc' = [pc EXCEPT ![t] = AfterClaim(res.result)]
  /\ UNCHANGED <<phase, consumed, _evac_failure_regions,
                 _evac_failure_regions_cur_length, notified, region_idx,
                 offset, invoked, retTrue, retFalse, reserved, writes,
                 prevCount>>

\* size_t offset = Atomic::fetch_then_add(&_evac_failure_regions_cur_length, 1u);
RecordFetchAddNoAdd(t) ==
  /\ pc[t] = "fetch_add"
  /\ offset' = [offset EXCEPT ![t] = _evac_failure_regions_cur_length]
  /\ reserved' = Append(reserved,
                        <<region_idx[t], _evac_failure_regions_cur_length>>)
  /\ pc' = [pc EXCEPT ![t] = "store"]
  /\ UNCHANGED <<phase, consumed, shared, region_idx, success,
                 invoked, retTrue, retFalse, claimOrder, writes,
                 prevCount>>
RecordFetchAddPost(t) ==
  LET res == fetch_then_add(_evac_failure_regions_cur_length, 1) IN
  /\ pc[t] = "fetch_add"
  /\ _evac_failure_regions_cur_length' = res.value
  /\ offset' = [offset EXCEPT ![t] = res.value]
  /\ reserved' = Append(reserved, <<region_idx[t], res.value>>)
  /\ pc' = [pc EXCEPT ![t] = "store"]
  /\ UNCHANGED <<phase, consumed, _regions_failed_evacuation,
                 _evac_failure_regions, notified, region_idx, success,
                 invoked, retTrue, retFalse, claimOrder, writes,
                 prevCount>>
RecordFetchAddSkipStore(t) ==
  LET res == fetch_then_add(_evac_failure_regions_cur_length, 1) IN
  /\ pc[t] = "fetch_add"
  /\ _evac_failure_regions_cur_length' = res.value
  /\ offset' = [offset EXCEPT ![t] = res.result]
  /\ reserved' = Append(reserved, <<region_idx[t], res.result>>)
  /\ pc' = [pc EXCEPT ![t] = "notify"]
  /\ UNCHANGED <<phase, consumed, _regions_failed_evacuation,
                 _evac_failure_regions, notified, region_idx, success,
                 invoked, retTrue, retFalse, claimOrder, writes,
                 prevCount>>
RecordFetchAdd(t) ==
  LET res == fetch_then_add(_evac_failure_regions_cur_length, 1) IN
  /\ pc[t] = "fetch_add"
  /\ _evac_failure_regions_cur_length' = res.value
  /\ offset' = [offset EXCEPT ![t] = res.result]
  /\ reserved' = Append(reserved, <<region_idx[t], res.result>>)
  /\ pc' = [pc EXCEPT ![t] = "store"]
  /\ UNCHANGED <<phase, consumed, _regions_failed_evacuation,
                 _evac_failure_regions, notified, region_idx, success,
                 invoked, retTrue, retFalse, claimOrder, writes,
                 prevCount>>

\* _evac_failure_regions[offset] = region_idx;
\* (a store past the end of the storage is not modelled as changing a slot)
StoreAt(log, off, r) ==
  IF off \in DOMAIN log THEN [log EXCEPT ![off] = r] ELSE log

RecordStoreAtCursor(t) ==
  LET off == _evac_failure_regions_cur_length - 1 IN
  /\ pc[t] = "store"
  /\ _evac_failure_regions' = StoreAt(_evac_failure_regions, off, region_idx[t])
  /\ writes' = StoreAt(writes, off, writes[off] + 1)
  /\ pc' = [pc EXCEPT ![t] = "notify"]
  /\ UNCHANGED <<phase, consumed, _regions_failed_evacuation,
                 _evac_failure_regions_cur_length, notified, region_idx,
                 success, offset, invoked, retTrue, retFalse, claimOrder,
                 reserved, prevCount>>
RecordStore(t) ==
  /\ pc[t] = "store"
  /\ _evac_failure_regions' =
        StoreAt(_evac_failure_regions, offset[t], region_idx[t])
  /\ writes' = IF offset[t] \in Slots
               THEN [writes EXCEPT ![offset[t]] = @ + 1] ELSE writes
  /\ pc' = [pc EXCEPT ![t] = "notify"]
  /\ UNCHANGED <<phase, consumed, _regions_failed_evacuation,
                 _evac_failure_regions_cur_length, notified, region_idx,
                 success, offset, invoked, retTrue, retFalse, claimOrder,
                 reserved, prevCount>>

\* g1h->region_at(region_idx)->note_evacuation_failure();
RecordNotifyAtOffset(t) ==
  /\ pc[t] = "notify"
  /\ notified' = note_evacuation_failure(notified, offset[t])
  /\ pc' = [pc EXCEPT ![t] = "ret"]
  /\ UNCHANGED <<phase, consumed, _regions_failed_evacuation,
                 _evac_failure_regions, _evac_failure_regions_cur_length,
                 region_idx, success, offset, history>>
RecordNotify(t) ==
  /\ pc[t] = "notify"
  /\ notified' = note_evacuation_failure(notified, region_idx[t])
  /\ pc' = [pc EXCEPT ![t] = "ret"]
  /\ UNCHANGED <<phase, consumed, _regions_failed_evacuation,
                 _evac_failure_regions, _evac_failure_regions_cur_length,
                 region_idx, success, offset, history>>

\* return success;
ReturnValueTrue(s) == TRUE
ReturnValue(s) == s

RecordReturn(t) ==
  LET r == region_idx[t] IN
  /\ pc[t] = "ret"
  /\ IF ReturnValue(success[t])
     THEN /\ retTrue' = [retTrue EXCEPT ![r] = @ + 1]
          /\ UNCHANGED retFalse
     ELSE /\ retFalse' = [retFalse EXCEPT ![r] = @ + 1]
          /\ UNCHANGED retTrue
  /\ pc' = [pc EXCEPT ![t] = "idle"]
  /\ region_idx' = [region_idx EXCEPT ![t] = 0]
  /\ success' = [success EXCEPT ![t] = FALSE]
  /\ offset' = [offset EXCEPT ![t] = 0]
  /\ UNCHANGED <<phase, consumed, shared, invoked, claimOrder, reserved, writes, prevCount>>

\* one step of worker t inside record()
RecordStep(t) ==
  \/ RecordClaim(t)
  \/ RecordFetchAdd(t)
  \/ RecordStore(t)
  \/ RecordNotify(t)
  \/ RecordReturn(t)

\* ----------------------------------------------------------------- reset
\* Sealed -> Idle: clears every bit and sets the cursor back to zero.  What
\* the log storage holds from the pause before is indeterminate for the
\* next one.
resetKeepBits ==
  /\ phase = "Sealed"
  /\ phase' = "Idle"
  /\ _evac_failure_regions_cur_length' = 0
  /\ notified' = [r \in Regions |-> 0]
  /\ invoked' = [r \in Regions |-> 0]
  /\ retTrue' = [r \in Regions |-> 0]
  /\ retFalse' = [r \in Regions |-> 0]
  /\ claimOrder' = << >>
  /\ reserved' = << >>
  /\ writes' = [i \in Slots |-> 0]
  /\ prevCount' = count
  /\ consumed' = << >>
  /\ _evac_failure_regions' = [i \in Slots |-> Indeterminate]
  /\ UNCHANGED <<_regions_failed_evacuation, locals>>
reset ==
  /\ phase = "Sealed"
  /\ phase' = "Idle"
  /\ _regions_failed_evacuation' = [r \in Regions |-> FALSE]
  /\ _evac_failure_regions_cur_length' = 0
  /\ notified' = [r \in Regions |-> 0]
  /\ invoked' = [r \in Regions |-> 0]
  /\ retTrue' = [r \in Regions |-> 0]
  /\ retFalse' = [r \in Regions |-> 0]
  /\ claimOrder' = << >>
  /\ reserved' = << >>
  /\ writes' = [i \in Slots |-> 0]
  /\ prevCount' = count
  /\ consumed' = << >>
  /\ _evac_failure_regions' = [i \in Slots |-> Indeterminate]
  /\ UNCHANGED locals

\* -------------------------------------------------------------- consumer
\* Sealed: the consumer reads count() and iterates the failed-region list;
\* it may do so again until reset.
ReadFailedRegions ==
  /\ phase = "Sealed"
  /\ consumed' = <<count, FailedRegions>>
  /\ UNCHANGED <<phase, shared, locals, history>>

\* ------------------------------------------------------------------ Next
Next ==
  \/ StartRecording
  \/ \E t \in Workers, r \in Regions : Call(t, r)
  \/ \E t \in Workers : RecordClaim(t)
  \/ \E t \in Workers : RecordFetchAdd(t)
  \/ \E t \in Workers : RecordStore(t)
  \/ \E t \in Workers : RecordNotify(t)
  \/ \E t \in Workers : RecordReturn(t)
  \/ Seal
  \/ ReadFailedRegions
  \/ reset

Spec == Init /\ [][Next]_vars

\* Worker threads are scheduled fairly: a worker inside record() keeps
\* executing its own statements.
FairSpec == Spec /\ \A t \in Workers : WF_vars(RecordStep(t))

\* ============================================================ properties
Quiescent == \A t \in Workers : pc[t] = "idle"

\* no record(r) call is in progress
Returned(r) == \A t \in Workers : pc[t] # "idle" => region_idx[t] # r

Recorded == { r \in Regions : invoked[r] >= 1 }

ReservedIdx == [ i \in DOMAIN reserved |-> reserved[i][2] ]
ReservedRegion == [ i \in DOMAIN reserved |-> reserved[i][1] ]

Written == { i \in Slots : writes[i] >= 1 }

\* C1 -- Exactly-once claim: when record(r) has been invoked N >= 1 times in
\* the current Recording phase and all of them have returned, exactly one
\* returned true and N-1 returned false, whatever the interleaving and
\* whatever calls were made for other ids; at no time have two calls for
\* the same id returned true.
ExactlyOnceClaim ==
  \A r \in Regions :
    /\ retTrue[r] <= 1
    /\ (Returned(r) /\ invoked[r] >= 1) =>
          (retTrue[r] = 1 /\ retFalse[r] = invoked[r] - 1)

ExactlyOnceClaimWitness ==
  /\ phase = "Sealed"
  /\ \E r, q \in Regions :
        /\ r # q
        /\ invoked[r] >= 2 /\ retTrue[r] = 1 /\ retFalse[r] = invoked[r] - 1
        /\ invoked[q] >= 1

\* C2 -- Disjoint append slots: no two winning calls ever obtain the same
\* index from the fetch-and-add; once all record calls have returned, the
\* indices obtained and the slots written are exactly 0..K-1, each written
\* once, where K is the number of distinct region ids recorded.
DisjointAppendSlots ==
  /\ NoDup(ReservedIdx)
  /\ Quiescent =>
        /\ Range(ReservedIdx) = 0 .. (Cardinality(Recorded) - 1)
        /\ Written = 0 .. (Cardinality(Recorded) - 1)
        /\ \A i \in Slots : writes[i] <= 1

DisjointAppendSlotsWitness ==
  /\ phase = "Sealed"
  /\ Cardinality(Recorded) >= 2
  /\ Written = 0 .. (Cardinality(Recorded) - 1)
  /\ \E r \in Regions : invoked[r] >= 2

\* C3 -- No duplicates: once Sealed, the sequence of region ids in log
\* indices [0, count) contains each region id at most once.
NoDuplicates ==
  phase = "Sealed" => NoDup(FailedRegions)

NoDuplicatesWitness ==
  /\ phase = "Sealed"
  /\ count >= 2
  /\ \E r \in Regions : retFalse[r] >= 1

\* C4 -- Notification invariant: a region is notified at most once per
\* pause; a region whose record call returned true has been notified
\* exactly once (so the notification precedes the return); a notified
\* region is one whose bitmap claim was won; and once all calls have
\* returned the notified regions are exactly those that returned true.
NotificationInvariant ==
  \A r \in Regions :
    /\ notified[r] <= 1
    /\ retTrue[r] >= 1 => notified[r] = 1
    /\ notified[r] >= 1 => r \in Range(claimOrder)
    /\ Quiescent => notified[r] = retTrue[r]

NotificationInvariantWitness ==
  \E r, q \in Regions :
    /\ retTrue[r] = 1 /\ notified[r] = 1 /\ retFalse[r] >= 1
    /\ invoked[q] = 0 /\ notified[q] = 0

\* C5 -- Capacity bound: with all region ids in [0, max_regions), the append
\* cursor never exceeds max_regions and every index a winning call obtains
\* and writes to is below max_regions.
CapacityBound ==
  /\ _evac_failure_regions_cur_length <= max_regions
  /\ \A i \in DOMAIN reserved : reserved[i][2] < max_regions
  /\ \A t \in Workers : pc[t] = "store" => offset[t] < max_regions

CapacityBoundWitness ==
  /\ _evac_failure_regions_cur_length = max_regions
  /\ \E t \in Workers : pc[t] = "store" /\ offset[t] = max_regions - 1

\* C6 -- A losing record call has no effect: a call that finds the bit of
\* its region already set goes straight to its return, returns false, and
\* neither of its steps changes the bitmap, the cursor, a log slot or a
\* notification count.
LosingRecordNoEffect ==
  [][ \A t \in Workers :
        /\ ( /\ pc[t] = "claim"
             /\ _regions_failed_evacuation[region_idx[t]]
             /\ pc'[t] # "claim" )
           => ( /\ pc'[t] = "ret"
                /\ ~success'[t]
                /\ UNCHANGED shared )
        /\ ( pc[t] = "ret" /\ ~success[t] /\ pc'[t] # "ret" )
           => ( /\ pc'[t] = "idle"
                /\ retFalse'[region_idx[t]] = retFalse[region_idx[t]] + 1
                /\ retTrue' = retTrue
                /\ UNCHANGED shared ) ]_vars

LosingRecordNoEffectWitness ==
  \E r \in Regions :
    /\ retFalse[r] >= 1
    /\ _evac_failure_regions_cur_length = 1
    /\ notified[r] = 1

\* C7 (as stated) -- first-observation order: once Sealed, if the winning
\* bitmap claim for a happened before the winning claim for b, a is stored
\* at a lower log index than b.
SlotOf(r) ==
  CHOOSE i \in 0 .. (count - 1) : _evac_failure_regions[i] = r

FirstObservationOrder ==
  phase = "Sealed" =>
    \A i, j \in DOMAIN claimOrder :
      i < j => SlotOf(claimOrder[i]) < SlotOf(claimOrder[j])

\* C7 (amended) -- reservation order: once Sealed, the log holds exactly the
\* regions whose claim was won, and a is stored at a lower index than b
\* exactly when a's fetch-and-add on the cursor happened before b's.
ReservationOrder ==
  phase = "Sealed" =>
    /\ FailedRegions = ReservedRegion
    /\ Range(FailedRegions) = Range(claimOrder)

ReservationOrderWitness ==
  /\ phase = "Sealed"
  /\ count >= 2
  /\ FailedRegions = ReservedRegion
  /\ FailedRegions # claimOrder

\* C8 -- Reset restores Idle: after reset(), count() is 0,
\* has_failed_regions() is false and every bit is clear; in every Recording
\* phase, also one that follows a reset, the first record(r) of an id
\* returns true, ids recorded in the previous pause included.
ResetRestoresIdle ==
  /\ phase = "Idle" =>
        /\ count = 0
        /\ ~has_failed_regions
        /\ \A r \in Regions : ~_regions_failed_evacuation[r]
  /\ \A r \in Regions :
        (invoked[r] = 1 /\ Returned(r)) => (retTrue[r] = 1 /\ retFalse[r] = 0)

ResetRestoresIdleWitness ==
  /\ prevCount = max_regions      \* every id was recorded in the pause before
  /\ \E r \in Regions : invoked[r] = 1 /\ Returned(r) /\ retTrue[r] = 1

\* C9 -- record is wait-free: a worker inside record() can always take its
\* next step whatever the other workers do, every step moves it strictly
\* forward through claim, fetch-and-add, store, notify, return (no retry),
\* and under fair scheduling every invocation returns.
Rank(p) ==
  CASE p = "claim" -> 1
    [] p = "fetch_add" -> 2
    [] p = "store" -> 3
    [] p = "notify" -> 4
    [] p = "ret" -> 5
    [] OTHER -> 6

WaitFree ==
  /\ [](\A t \in Workers : pc[t] # "idle" => ENABLED RecordStep(t))
  /\ [][ \A t \in Workers :
           (pc[t] # "idle" /\ pc'[t] # pc[t]) => Rank(pc'[t]) > Rank(pc[t]) ]_vars
  /\ \A t \in Workers : (pc[t] # "idle") ~> (pc[t] = "idle")

WaitFreeWitness ==
  \E t, u \in Workers :
    /\ t # u
    /\ pc[t] = "ret" /\ ~success[t]
    /\ pc[u] = "fetch_add" /\ region_idx[u] = region_idx[t]

\* C10 -- Bitmap bits are monotonic within a pause: a set bit is cleared
\* only by reset, record never clears a bit, and each bit goes from clear
\* to set at most once per pause.
BitsMonotonic ==
  /\ [](NoDup(claimOrder))
  /\ [][ \A r \in Regions :
           (_regions_failed_evacuation[r] /\ ~_regions_failed_evacuation'[r])
              => (phase = "Sealed" /\ phase' = "Idle") ]_vars

BitsMonotonicWitness ==
  \E r \in Regions :
    /\ _regions_failed_evacuation[r]
    /\ retFalse[r] >= 1
    /\ prevCount = max_regions

\* C11 -- Each log slot is written by at most one worker and at most once
\* per pause: a worker about to store holds an index no other worker holds
\* and whose slot has not been stored into, no slot is stored into twice,
\* and the content of a written slot changes only by reset.
SlotWrittenOnce ==
  /\ [](\A i \in Slots : writes[i] <= 1)
  /\ [](\A t \in Workers :
          pc[t] = "store" =>
            /\ offset[t] \in Slots
            /\ writes[offset[t]] = 0
            /\ \A u \in Workers :
                 (u # t /\ pc[u] = "store") => offset[u] # offset[t])
  /\ [][ \A i \in Slots :
           (writes[i] >= 1 /\ _evac_failure_regions'[i] # _evac_failure_regions[i])
              => (phase = "Sealed" /\ phase' = "Idle") ]_vars

SlotWrittenOnceWitness ==
  \E t, u \in Workers :
    /\ t # u
    /\ pc[t] = "store" /\ offset[t] = 0
    /\ pc[u] = "notify" /\ offset[u] = 1 /\ writes[1] = 1

\* C12 -- Reads are stable once Sealed: in every Sealed state count() is
\* the number of record calls that returned true, and whatever the consumer
\* has read since the seal -- the count and the sequence of region ids in
\* log indices [0, count) -- is what a further read yields, until reset.
ReadsStable ==
  phase = "Sealed" =>
    /\ count = SumOver(retTrue, Regions)
    /\ consumed # << >> =>
          /\ consumed[1] = count
          /\ consumed[2] = FailedRegions
          /\ Len(consumed[2]) = SumOver(retTrue, Regions)

ReadsStableWitness ==
  /\ phase = "Sealed"
  /\ consumed # << >>
  /\ consumed[1] >= 2
  /\ \E r \in Regions : retFalse[r] >= 1

\* C13 -- Step order on the winning path: for a region r, a true return
\* has been preceded by the notification of r, the notification by the
\* store of r into a slot below the cursor, the store by the increment of
\* the cursor for r, and the increment by the setting of r's bit.
InLog(r) ==
  \E i \in Slots :
    i < _evac_failure_regions_cur_length /\ writes[i] >= 1
      /\ _evac_failure_regions[i] = r

StepOrder ==
  \A r \in Regions :
    /\ retTrue[r] >= 1 => notified[r] >= 1
    /\ notified[r] >= 1 => InLog(r)
    /\ InLog(r) => r \in Range(ReservedRegion)
    /\ r \in Range(ReservedRegion) => _regions_failed_evacuation[r]

StepOrderWitness ==
  \E t, u \in Workers :
    /\ pc[t] = "ret" /\ success[t]
    /\ notified[region_idx[t]] = 1 /\ InLog(region_idx[t])
    /\ pc[u] = "fetch_add"
    /\ _regions_failed_evacuation[region_idx[u]] /\ ~InLog(region_idx[u])

\* C14 -- At quiescence (no record call in progress) the region ids in log
\* indices [0, cursor) are exactly the regions whose bit is set, which are
\* exactly the notified regions, and the cursor is the number of set bits.
SetBits == { r \in Regions : _regions_failed_evacuation[r] }

Logged ==
  { _evac_failure_regions[i] :
      i \in { j \in Slots : j < _evac_failure_regions_cur_length } }

Notified == { r \in Regions : notified[r] >= 1 }

QuiescentAgreement ==
  Quiescent =>
    /\ Logged = SetBits
    /\ SetBits = Notified
    /\ _evac_failure_regions_cur_length = Cardinality(SetBits)

QuiescentAgreementWitness ==
  /\ Quiescent
  /\ phase = "Recording"
  /\ Cardinality(SetBits) >= 2
  /\ \E r \in Regions : retFalse[r] >= 1

\* C15 -- During Recording, slots written <= cursor <= bits set; an
\* inequality is strict only while a winning call is between the two steps
\* concerned.  Both can be strict at once: then an index below the cursor
\* names a slot not yet written and a region with its bit set is not yet in
\* the log.
CursorBetween ==
  /\ Cardinality(Written) <= _evac_failure_regions_cur_length
  /\ _evac_failure_regions_cur_length <= Cardinality(SetBits)
  /\ Cardinality(Written) < _evac_failure_regions_cur_length
        => \E t \in Workers : pc[t] = "store" /\ success[t]
  /\ _evac_failure_regions_cur_length < Cardinality(SetBits)
        => \E t \in Workers : pc[t] = "fetch_add" /\ success[t]

CursorBetweenWitness ==
  /\ phase = "Recording"
  /\ Cardinality(Written) < _evac_failure_regions_cur_length
  /\ _evac_failure_regions_cur_length < Cardinality(SetBits)
  /\ \E i \in Slots : i < _evac_failure_regions_cur_length /\ writes[i] = 0
  /\ \E r \in SetBits : ~InLog(r)

\* C16 -- Records of different regions do not interfere: the result of the
\* claim of record(a) is the negation of a's bit just before the claim, the
\* claim leaves the bit of every other region as it was, the call returns
\* that result, and a call that is the only one made for its id so far has
\* won, whatever calls are made for other ids.
NonInterference ==
  /\ [](\A t \in Workers :
          (pc[t] \notin {"idle", "claim"} /\ invoked[region_idx[t]] = 1)
             => success[t])
  /\ [][ \A t \in Workers :
           /\ (pc[t] = "claim" /\ pc'[t] # "claim") =>
                 /\ success'[t] = ~_regions_failed_evacuation[region_idx[t]]
                 /\ \A q \in Regions \ {region_idx[t]} :
                      _regions_failed_evacuation'[q]
                         = _regions_failed_evacuation[q]
           /\ (pc[t] = "ret" /\ pc'[t] = "idle") =>
                 /\ success[t] =>
                      retTrue'[region_idx[t]] = retTrue[region_idx[t]] + 1
                 /\ ~success[t] =>
                      retFalse'[region_idx[t]] = retFalse[region_idx[t]] + 1 ]_vars

NonInterferenceWitness ==
  /\ \A t \in Workers : pc[t] \notin {"idle", "claim"} /\ success[t]
  /\ \A t, u \in Workers : t # u => region_idx[t] # region_idx[u]
  /\ Cardinality(SetBits) = NumWorkers

TypeOK ==
  /\ phase \in {"Idle", "Recording", "Sealed"}
  /\ _regions_failed_evacuation \in [Regions -> BOOLEAN]
  /\ _evac_failure_regions \in [Slots -> Regions \cup {Indeterminate}]
  /\ _evac_failure_regions_cur_length \in Nat
  /\ notified \in [Regions -> Nat]
  /\ pc \in [Workers -> {"idle", "claim", "fetch_add", "store", "notify", "ret"}]
  /\ region_idx \in [Workers -> Regions]
  /\ success \in [Workers -> BOOLEAN]
  /\ offset \in [Workers -> Nat]
  /\ consumed \in {<< >>} \cup (Nat \X Seq(Regions \cup {Indeterminate}))
====
